---- MODULE Spec2Model ----
(***************************************************************************)
(* RecordPage (src/src/pages/RecordPage.tsx, lines 1-618): the capture     *)
(* session of Screen-Recorder-Pro as a state machine.                      *)
(*                                                                         *)
(* One step of the model is one browser task: a user event handler, or the *)
(* continuation of an async function after an await that really suspends   *)
(* (enumerateDevices, setTimeout, getUserMedia, video.play), or a platform *)
(* event (MediaRecorder start / dataavailable / error / stop, a track      *)
(* ending, an interval tick).  React state is committed at the end of each *)
(* task, so a handler sees the state of the last step; an async function   *)
(* keeps the recordingMode of the render it was called from.               *)
(***************************************************************************)
EXTENDS Integers, Sequences, FiniteSets

\* ------------------------------------------------------------ bounds
MaxStreams   == 2   \* stream objects alive or referenced at once
MaxRecorders == 2   \* MediaRecorder objects not yet finished at once
MaxAttempts  == 2   \* startRecording calls in flight at once
MaxTime      == 1   \* recordingTime is followed up to this value
MaxChunks    == 1   \* chunks kept by one recording
MaxLeaked    == 1   \* running intervals no longer referenced by intervalRef
MaxStarts    == 3   \* clicks on the start button that are followed
MaxDelivered == 3   \* chunks delivered to the recording followed by SpecChunks
MaxButtonRenders == 3  \* calls of renderButton followed during one mount

\* ------------------------------------------------------------ values
Modes  == {"audio", "video"}
Tracks == {"audio", "video"}
Null   == "null"

Streams   == 1..MaxStreams
Recorders == 1..MaxRecorders
Attempts  == 1..MaxAttempts

\* event.data.size of a delivered chunk
ChunkSizes == {0, 120}

\* the sizes followed when the buffer of one recording is looked at
WideSizes == {0, 120, 130}

\* the tracks getUserMedia delivers for the constraints of a mode
TracksOf(mode) == IF mode = "video" THEN {"audio", "video"} ELSE {"audio"}

\* ------------------------------------------------------------ messages
MsgNoMicrophone  == "Aucun microphone detecte sur votre systeme"
MsgNoCamera      == "Aucune camera detectee sur votre systeme"
MsgInvalidStream == "Flux media invalide recu"
MsgNoActiveTrackObtained == "Aucune piste media active obtenue"
MsgNoActiveTrack == "Aucune piste media active"
MsgNoFormat      == "Aucun format d'enregistrement supporte par votre navigateur"
MsgNoData        == "Aucune donnee enregistree"
MsgUnknownAccess == "Erreur inconnue lors de l'acces aux medias"
MsgRecorderError == "Erreur lors de l'enregistrement: Erreur inconnue"
MsgRecorderErrorPlatform == "Erreur lors de l'enregistrement: platform message"
MsgPlatform      == "platform message"

\* a thrown value: Error objects with a name and a message
Err(name, message) == [name |-> name, message |-> message]

\* what navigator.mediaDevices.getUserMedia can reject with
GumErrors ==
  { Err("NotAllowedError", MsgPlatform), Err("NotFoundError", MsgPlatform),
    Err("NotReadableError", MsgPlatform), Err("OverconstrainedError", MsgPlatform),
    Err("SecurityError", MsgPlatform), Err("AbortError", MsgPlatform),
    Err("TypeError", MsgPlatform), Err("TypeError", "") }

\* the rejections the model follows: one with a case of its own in
\* the switch below, one for its default case
GumErrorsFollowed == { Err("NotAllowedError", MsgPlatform), Err("TypeError", "") }

\* the switch with a default case that reports its own text only
ErrorMessage_OwnDefault(e, mode) ==
  CASE e.name = "NotAllowedError" ->
         IF mode = "video"
         THEN "Acces refuse. Veuillez autoriser l'acces au microphone et a la camera dans les parametres de votre navigateur."
         ELSE "Acces refuse. Veuillez autoriser l'acces au microphone dans les parametres de votre navigateur."
    [] e.name = "NotFoundError" ->
         IF mode = "video"
         THEN "Aucun dispositif audio/video trouve sur votre systeme."
         ELSE "Aucun dispositif audio trouve sur votre systeme."
    [] e.name = "NotReadableError" ->
         IF mode = "video"
         THEN "Dispositif deja utilise par une autre application. Veuillez fermer les autres applications utilisant le microphone ou la camera et reessayer."
         ELSE "Dispositif deja utilise par une autre application. Veuillez fermer les autres applications utilisant le microphone et reessayer."
    [] e.name = "OverconstrainedError" ->
         "Les parametres demandes ne sont pas supportes par votre dispositif."
    [] e.name = "SecurityError" ->
         "Acces securise requis. Assurez-vous d'utiliser HTTPS."
    [] e.name = "AbortError" ->
         "Demande d'acces annulee. Veuillez reessayer."
    [] OTHER -> MsgUnknownAccess

\* the switch of requestMediaAccess' catch block
ErrorMessage(e, mode) ==
  CASE e.name = "NotAllowedError" ->
         IF mode = "video"
         THEN "Acces refuse. Veuillez autoriser l'acces au microphone et a la camera dans les parametres de votre navigateur."
         ELSE "Acces refuse. Veuillez autoriser l'acces au microphone dans les parametres de votre navigateur."
    [] e.name = "NotFoundError" ->
         IF mode = "video"
         THEN "Aucun dispositif audio/video trouve sur votre systeme."
         ELSE "Aucun dispositif audio trouve sur votre systeme."
    [] e.name = "NotReadableError" ->
         IF mode = "video"
         THEN "Dispositif deja utilise par une autre application. Veuillez fermer les autres applications utilisant le microphone ou la camera et reessayer."
         ELSE "Dispositif deja utilise par une autre application. Veuillez fermer les autres applications utilisant le microphone et reessayer."
    [] e.name = "OverconstrainedError" ->
         "Les parametres demandes ne sont pas supportes par votre dispositif."
    [] e.name = "SecurityError" ->
         "Acces securise requis. Assurez-vous d'utiliser HTTPS."
    [] e.name = "AbortError" ->
         "Demande d'acces annulee. Veuillez reessayer."
    [] OTHER ->
         IF e.message # "" THEN e.message ELSE MsgUnknownAccess

\* ------------------------------------------------------------ formats
VideoTypes == << "video/webm;codecs=vp9,opus", "video/webm;codecs=vp8,opus",
                 "video/webm", "video/mp4" >>
AudioTypes == << "audio/webm;codecs=opus", "audio/webm", "audio/mp4", "audio/ogg" >>

possibleTypes(mode) == IF mode = "video" THEN VideoTypes ELSE AudioTypes

\* the loop without its break: the last supported entry
RECURSIVE FirstSupported_Last(_, _, _)
FirstSupported_Last(types, sup, k) ==
  IF k > Len(types) THEN ""
  ELSE IF FirstSupported_Last(types, sup, k + 1) # ""
       THEN FirstSupported_Last(types, sup, k + 1)
  ELSE IF types[k] \in sup THEN types[k] ELSE ""

\* the for-loop over possibleTypes: the first supported entry, "" when none
RECURSIVE FirstSupported(_, _, _)
FirstSupported(types, sup, k) ==
  IF k > Len(types) THEN ""
  ELSE IF types[k] \in sup THEN types[k]
  ELSE FirstSupported(types, sup, k + 1)

SelectMimeType(mode, sup) == FirstSupported(possibleTypes(mode), sup, 1)

\* what MediaRecorder.isTypeSupported accepts, on the platforms considered
\* (none, mp4 only, WebM and mp4); a page runs on one of them
Platforms ==
  { {},
    {"video/mp4", "audio/mp4"},
    {"video/webm;codecs=vp9,opus", "video/webm;codecs=vp8,opus", "video/webm",
     "video/mp4", "audio/webm;codecs=opus", "audio/webm", "audio/mp4"} }

\* where new MediaRecorder(...) or mediaRecorder.start(...) throws, if at all
Throws == {"none", "ctor", "start"}

\* ------------------------------------------------------------ state
VARIABLES
  mounted,          \* the component is mounted
  isRecording, recordedBlob, recordingTime, recordingMode,
  isVideoEnabled, permissionStatus, isInitializing, error,   \* useState
  mediaRecorderRef, streamRef, intervalRef, isCleaningUpRef, \* useRef
  videoSrc,         \* videoRef.current.srcObject (0: none)
  leaked,           \* running intervals intervalRef no longer refers to
  streams,          \* the MediaStream objects: their live tracks
  recorders,        \* the MediaRecorder objects with their handlers' closures
  attempts,         \* the startRecording calls in flight
  resetWaiting,     \* a resetRecording call is awaiting its cleanupResources
  unmountWaiting,   \* the unmount's cleanupResources is in its delay
  starts,           \* clicks on the start button so far
  platform,         \* the types MediaRecorder.isTypeSupported accepts
  delivered,        \* SpecChunks: the sizes of the chunks delivered so far
  download,         \* SpecDownload: a.download of the last file saved
  auth,             \* AuthProvider's user and isLoading, and the route on show
  gsi,              \* the Google Identity script and window.google
  button            \* GoogleSignInButton: its state, its effect, its DOM

vars == << mounted, isRecording, recordedBlob, recordingTime, recordingMode,
           isVideoEnabled, permissionStatus, isInitializing, error,
           mediaRecorderRef, streamRef, intervalRef, isCleaningUpRef,
           videoSrc, leaked, streams, recorders, attempts, resetWaiting,
           unmountWaiting, starts, platform, delivered,
           download, auth, gsi, button >>

\* the routes of App (lines 16-31)
Routes == {"/", "/record"}

\* a user is signed in and the record page is on show
SignedIn == [user |-> "user", isLoading |-> FALSE, route |-> "/record"]

\* the Google Identity script has been loaded and has defined window.google
GsiLoaded == [script |-> "loaded", api |-> "ready", effect |-> "done"]

\* GoogleSignInButton is not rendered
NoButton == [mounted |-> FALSE, isInitialized |-> FALSE, ran |-> FALSE,
             lastDeps |-> FALSE, hasCleanup |-> FALSE, content |-> FALSE,
             calls |-> 0]

\* GoogleSignInButton has just been mounted: its effect is still to run
NewButton == [NoButton EXCEPT !.mounted = TRUE]

\* no file has been saved
NoDownload == [prefix |-> "", stamp |-> << >>, extension |-> ""]

NoBlob     == [type |-> Null, chunks |-> << >>]
NoStream   == [live |-> {}, mode |-> "audio"]
NoRecorder == [phase |-> "free", stream |-> 0, mode |-> "audio", mimeType |-> "",
               chunks |-> << >>, old |-> FALSE]
NoAttempt  == [pc |-> "idle", mode |-> "audio", stream |-> 0, err |-> Null]

\* the whole state as one value, so that handlers compose as functions
Cur ==
  [ mounted |-> mounted, isRecording |-> isRecording, recordedBlob |-> recordedBlob,
    recordingTime |-> recordingTime, recordingMode |-> recordingMode,
    isVideoEnabled |-> isVideoEnabled, permissionStatus |-> permissionStatus,
    isInitializing |-> isInitializing, error |-> error,
    mediaRecorderRef |-> mediaRecorderRef, streamRef |-> streamRef,
    intervalRef |-> intervalRef, isCleaningUpRef |-> isCleaningUpRef,
    videoSrc |-> videoSrc, leaked |-> leaked, streams |-> streams,
    recorders |-> recorders, attempts |-> attempts,
    resetWaiting |-> resetWaiting, unmountWaiting |-> unmountWaiting,
    starts |-> starts ]


Apply(s) ==
  /\ mounted' = s.mounted
  /\ isRecording' = s.isRecording
  /\ recordedBlob' = s.recordedBlob
  /\ recordingTime' = s.recordingTime
  /\ recordingMode' = s.recordingMode
  /\ isVideoEnabled' = s.isVideoEnabled
  /\ permissionStatus' = s.permissionStatus
  /\ isInitializing' = s.isInitializing
  /\ error' = s.error
  /\ mediaRecorderRef' = s.mediaRecorderRef
  /\ streamRef' = s.streamRef
  /\ intervalRef' = s.intervalRef
  /\ isCleaningUpRef' = s.isCleaningUpRef
  /\ videoSrc' = s.videoSrc
  /\ leaked' = s.leaked
  /\ streams' = s.streams
  /\ recorders' = s.recorders
  /\ attempts' = s.attempts
  /\ resetWaiting' = s.resetWaiting
  /\ unmountWaiting' = s.unmountWaiting
  /\ starts' = s.starts
  /\ platform' = platform

\* ------------------------------------------------------------ React
\* A state setter of an unmounted component does nothing.
setIsRecording(s, v)      == IF s.mounted THEN [s EXCEPT !.isRecording = v] ELSE s
setRecordedBlob(s, v)     == IF s.mounted THEN [s EXCEPT !.recordedBlob = v] ELSE s
setRecordingTime(s, v)    == IF s.mounted THEN [s EXCEPT !.recordingTime = v] ELSE s
setIsVideoEnabled(s, v)   == IF s.mounted THEN [s EXCEPT !.isVideoEnabled = v] ELSE s
setPermissionStatus(s, v) == IF s.mounted THEN [s EXCEPT !.permissionStatus = v] ELSE s
setIsInitializing(s, v)   == IF s.mounted THEN [s EXCEPT !.isInitializing = v] ELSE s
setError(s, v)            == IF s.mounted THEN [s EXCEPT !.error = v] ELSE s

\* videoRef.current: the <video> element is rendered in video mode only
HasVideoEl(s) == s.mounted /\ s.recordingMode = "video"

\* ------------------------------------------------------------ platform
\* MediaRecorder.state
RecState(rec) == IF rec.phase \in {"starting", "recording"} THEN "recording" ELSE "inactive"

\* "inactivate the recorder": state becomes inactive at once, the last
\* dataavailable and the stop event are delivered by a later task
Inactivate(rec) ==
  CASE rec.phase = "starting"  -> [rec EXCEPT !.phase = "flushStart"]
    [] rec.phase = "recording" -> [rec EXCEPT !.phase = "flush"]
    [] OTHER -> rec

\* the tracks of a stream end: a recorder of that stream is inactivated once
\* none of its tracks is live
EndTracks(s, sid, ts) ==
  LET lv == s.streams[sid].live \ ts
  IN [s EXCEPT !.streams[sid].live = lv,
               !.recorders = [r \in Recorders |->
                  IF lv = {} /\ s.recorders[r].stream = sid
                  THEN Inactivate(s.recorders[r]) ELSE s.recorders[r]]]

LiveStream(s, sid) == sid # 0 /\ s.streams[sid].live # {}

StreamReferenced(s, sid) ==
  \/ s.streamRef = sid
  \/ s.videoSrc = sid
  \/ \E r \in Recorders : s.recorders[r].stream = sid
  \/ \E i \in Attempts : s.attempts[i].stream = sid

\* objects nothing refers to any more are forgotten
Normalize(s) ==
  LET recs == [r \in Recorders |->
                 IF s.recorders[r].phase \in {"made", "done"} /\ s.mediaRecorderRef # r
                 THEN NoRecorder ELSE s.recorders[r]]
      s1 == [s EXCEPT !.recorders = recs]
  IN [s1 EXCEPT !.streams = [sid \in Streams |->
         IF s1.streams[sid].live = {} /\ ~StreamReferenced(s1, sid)
         THEN NoStream ELSE s1.streams[sid]]]

FreeStream(s)   == CHOOSE sid \in Streams :
                     /\ s.streams[sid].live = {} /\ ~StreamReferenced(s, sid)
                     /\ \A o \in Streams : (s.streams[o].live = {} /\ ~StreamReferenced(s, o)) => sid <= o
HasFreeStream(s) == \E sid \in Streams : s.streams[sid].live = {} /\ ~StreamReferenced(s, sid)
FreeRecorder(s) == CHOOSE r \in Recorders :
                     /\ s.recorders[r].phase = "free"
                     /\ \A o \in Recorders : s.recorders[o].phase = "free" => r <= o
HasFreeRecorder(s) == \E r \in Recorders : s.recorders[r].phase = "free"
FreeAttempt(s)  == CHOOSE i \in Attempts :
                     /\ s.attempts[i].pc = "idle"
                     /\ \A o \in Attempts : s.attempts[o].pc = "idle" => i <= o
HasFreeAttempt(s) == \E i \in Attempts : s.attempts[i].pc = "idle"

\* ------------------------------------------------------------ cleanupResources
\* lines 29-66: the body of cleanupResources up to its await
cleanupBody(s) ==
  LET ref == s.mediaRecorderRef
      s1 == [s EXCEPT !.isCleaningUpRef = TRUE]
      s2 == IF ref # 0 /\ RecState(s1.recorders[ref]) # "inactive"
            THEN [s1 EXCEPT !.recorders[ref] = Inactivate(@)] ELSE s1
      s3 == [s2 EXCEPT !.mediaRecorderRef = 0]
      s4 == IF s3.streamRef # 0
            THEN [EndTracks(s3, s3.streamRef, Tracks) EXCEPT !.streamRef = 0]
            ELSE s3
      s5 == IF s4.intervalRef THEN [s4 EXCEPT !.intervalRef = FALSE] ELSE s4
      s6 == IF HasVideoEl(s5) THEN [s5 EXCEPT !.videoSrc = 0] ELSE s5
  IN setError(setIsVideoEnabled(s6, FALSE), Null)

\* lines 69-72: the 100 ms delay is over, the finally block runs.  Timers run
\* in order: a 200 ms wait begun while this delay was pending ends after it.
cleanupFinally(s) ==
  [s EXCEPT !.isCleaningUpRef = FALSE,
            !.attempts = [i \in Attempts |->
               IF s.attempts[i].pc = "settleAfterCleanup"
               THEN [s.attempts[i] EXCEPT !.pc = "settle"] ELSE s.attempts[i]]]

\* the calls whose getUserMedia is pending when the session is reset or left
\* are remembered as such (for the properties only; the code keeps no such mark)
markStale(s) ==
  [s EXCEPT !.attempts = [i \in Attempts |->
      IF s.attempts[i].pc = "gum"
      THEN [s.attempts[i] EXCEPT !.pc = "gumStale"] ELSE s.attempts[i]]]

\* the recorders that exist when the session is reset are remembered as such
\* (for the properties only; the code keeps no such mark)
markOld(s) ==
  [s EXCEPT !.recorders = [r \in Recorders |->
      IF s.recorders[r].phase # "free"
      THEN [s.recorders[r] EXCEPT !.old = TRUE] ELSE s.recorders[r]]]

\* ------------------------------------------------------------ startRecording
\* startRecording without its finally block
finishAttempt_NoFinally(s, i) == [s EXCEPT !.attempts[i] = NoAttempt]

\* lines 348-350: the finally block of startRecording; the call is over
finishAttempt(s, i) == setIsInitializing([s EXCEPT !.attempts[i] = NoAttempt], FALSE)

\* lines 337-347: the catch block of startRecording, up to its await
startCatch(s, i, msg) ==
  LET s1 == setIsRecording(setError(s, msg), FALSE)
  IN IF s1.isCleaningUpRef
     THEN finishAttempt(s1, i)
     ELSE [cleanupBody(s1) EXCEPT !.attempts[i] =
             [pc |-> "catchCleanWait", mode |-> s.attempts[i].mode,
              stream |-> 0, err |-> msg]]

\* the chunks array kept from one call to the next: the recorder made by a
\* call goes on with the buffer of the recorder it replaces
setupRecorder_SharedChunks(s, i, sid, sup, throws) ==
  LET mode == s.attempts[i].mode
      r    == FreeRecorder(s)
      made == [s EXCEPT !.mediaRecorderRef = r,
                        !.recorders[r] = [phase |-> "made", stream |-> sid,
                                          mode |-> mode,
                                          mimeType |-> SelectMimeType(mode, sup),
                                          chunks |-> IF s.mediaRecorderRef # 0
                                                     THEN s.recorders[s.mediaRecorderRef].chunks
                                                     ELSE << >>,
                                          old |-> FALSE]]
      run  == [made EXCEPT !.recorders[r].phase = "starting",
                           !.leaked = IF s.intervalRef THEN @ + 1 ELSE @,
                           !.intervalRef = TRUE]
  IN CASE ~LiveStream(s, sid)            -> startCatch(s, i, MsgNoActiveTrack)
       [] SelectMimeType(mode, sup) = "" -> startCatch(s, i, MsgNoFormat)
       [] throws = "ctor"                -> startCatch(s, i, MsgPlatform)
       [] throws = "start"               -> startCatch(made, i, MsgPlatform)
       [] OTHER -> finishAttempt(setRecordingTime(setIsRecording(run, TRUE), 0), i)

\* the recorder constructed without options when no format is supported
setupRecorder_NoFormatCheck(s, i, sid, sup, throws) ==
  LET mode == s.attempts[i].mode
      r    == FreeRecorder(s)
      made == [s EXCEPT !.mediaRecorderRef = r,
                        !.recorders[r] = [phase |-> "made", stream |-> sid,
                                          mode |-> mode,
                                          mimeType |-> SelectMimeType(mode, sup),
                                          chunks |-> << >>, old |-> FALSE]]
      run  == [made EXCEPT !.recorders[r].phase = "starting",
                           !.leaked = IF s.intervalRef THEN @ + 1 ELSE @,
                           !.intervalRef = TRUE]
  IN CASE ~LiveStream(s, sid)            -> startCatch(s, i, MsgNoActiveTrack)
       [] throws = "ctor"                -> startCatch(s, i, MsgPlatform)
       [] throws = "start"               -> startCatch(made, i, MsgPlatform)
       [] OTHER -> finishAttempt(setRecordingTime(setIsRecording(run, TRUE), 0), i)

\* lines 241-335: from the stream in hand to the running recorder
setupRecorder(s, i, sid, sup, throws) ==
  LET mode == s.attempts[i].mode
      r    == FreeRecorder(s)
      made == [s EXCEPT !.mediaRecorderRef = r,
                        !.recorders[r] = [phase |-> "made", stream |-> sid,
                                          mode |-> mode,
                                          mimeType |-> SelectMimeType(mode, sup),
                                          chunks |-> << >>, old |-> FALSE]]
      run  == [made EXCEPT !.recorders[r].phase = "starting",
                           !.leaked = IF s.intervalRef THEN @ + 1 ELSE @,
                           !.intervalRef = TRUE]
  IN CASE ~LiveStream(s, sid)            -> startCatch(s, i, MsgNoActiveTrack)
       [] SelectMimeType(mode, sup) = "" -> startCatch(s, i, MsgNoFormat)
       [] throws = "ctor"                -> startCatch(s, i, MsgPlatform)
       [] throws = "start"               -> startCatch(made, i, MsgPlatform)
       [] OTHER -> finishAttempt(setRecordingTime(setIsRecording(run, TRUE), 0), i)

\* the model can follow setupRecorder: a recorder object is left when one is
\* constructed, and the count of unreferenced intervals stays within its bound
CanSetup(s, mode, sid, sup, throws) ==
  (LiveStream(s, sid) /\ SelectMimeType(mode, sup) # "" /\ throws # "ctor") =>
     /\ HasFreeRecorder(s)
     /\ (throws = "none" /\ s.intervalRef) => s.leaked < MaxLeaked

\* lines 214-218 and 337-347: requestMediaAccess reports, rethrows, and
\* startRecording catches
reqCatchRest(s, i, msg) ==
  startCatch(setIsInitializing(setError(s, msg), FALSE), i, msg)

\* lines 178-212: the catch block of requestMediaAccess, up to its await
reqCatch(s, i, e) ==
  LET msg == ErrorMessage(e, s.attempts[i].mode)
      s1  == setPermissionStatus(s, "denied")
  IN IF s1.isCleaningUpRef
     THEN reqCatchRest(s1, i, msg)
     ELSE [cleanupBody(s1) EXCEPT !.attempts[i].pc = "errCleanWait",
                                  !.attempts[i].err = msg]

\* the device check passing whatever enumerateDevices has answered
afterEnumerate_NoCheck(s, i, hasAudio, hasVideo) ==
  IF s.isCleaningUpRef
  THEN [s EXCEPT !.attempts[i].pc = "settleAfterCleanup"]
  ELSE [cleanupBody(s) EXCEPT !.attempts[i].pc = "cleanWait"]

\* lines 75-105: the device check, then the cleanup before the acquisition
afterEnumerate(s, i, hasAudio, hasVideo) ==
  CASE ~hasAudio -> reqCatch(s, i, Err("Error", MsgNoMicrophone))
    [] hasAudio /\ s.attempts[i].mode = "video" /\ ~hasVideo ->
         reqCatch(s, i, Err("Error", MsgNoCamera))
    [] OTHER ->
         IF s.isCleaningUpRef
         THEN [s EXCEPT !.attempts[i].pc = "settleAfterCleanup"]
         ELSE [cleanupBody(s) EXCEPT !.attempts[i].pc = "cleanWait"]

\* the stream taken over without the check for a live track
afterGetUserMedia_NoLiveCheck(s, i, hasTracks, lv, sup, throws) ==
  LET mode == s.attempts[i].mode
      sid  == IF HasFreeStream(s) THEN FreeStream(s) ELSE 1
      s1   == [s EXCEPT !.streams[sid] = [live |-> lv, mode |-> mode],
                        !.streamRef = sid]
      s2   == setPermissionStatus(s1, "granted")
  IN IF ~hasTracks THEN reqCatch(s, i, Err("Error", MsgInvalidStream))
     ELSE IF mode = "video" /\ HasVideoEl(s2)
     THEN [s2 EXCEPT !.videoSrc = sid, !.attempts[i].pc = "play",
                     !.attempts[i].stream = sid]
     ELSE setupRecorder(setIsInitializing(s2, FALSE), i, sid, sup, throws)

\* lines 140-176 and 238-335: getUserMedia has delivered a stream with the
\* live tracks lv (hasTracks: it has tracks at all)
afterGetUserMedia(s, i, hasTracks, lv, sup, throws) ==
  LET mode == s.attempts[i].mode
      sid  == FreeStream(s)
      s1   == [s EXCEPT !.streams[sid] = [live |-> lv, mode |-> mode],
                        !.streamRef = sid]
      s2   == setPermissionStatus(s1, "granted")
  IN CASE ~hasTracks -> reqCatch(s, i, Err("Error", MsgInvalidStream))
       [] hasTracks /\ lv = {} -> reqCatch(s, i, Err("Error", MsgNoActiveTrackObtained))
       [] OTHER ->
            IF mode = "video" /\ HasVideoEl(s2)
            THEN [s2 EXCEPT !.videoSrc = sid, !.attempts[i].pc = "play",
                            !.attempts[i].stream = sid]
            ELSE setupRecorder(setIsInitializing(s2, FALSE), i, sid, sup, throws)

\* lines 168-176 and 238-335: video.play() has settled
afterPlay(s, i, played, sup, throws) ==
  LET sid == s.attempts[i].stream
      s1  == IF played THEN setIsVideoEnabled(s, TRUE) ELSE s
      s2  == setIsInitializing([s1 EXCEPT !.attempts[i].stream = 0], FALSE)
  IN setupRecorder(s2, i, sid, sup, throws)

\* lines 221-243 and 96-102: startRecording up to its first await
startRecording(s, i, sup, throws) ==
  LET s1 == setError(setIsInitializing(s, TRUE), Null)
      s2 == [s1 EXCEPT !.attempts[i] =
               [pc |-> "enum", mode |-> s.recordingMode, stream |-> 0, err |-> Null]]
  IN IF LiveStream(s, s.streamRef)
     THEN setupRecorder(s2, i, s.streamRef, sup, throws)
     ELSE s2

\* lines 353-372
stopRecording(s) ==
  LET ref == s.mediaRecorderRef
  IN IF ref # 0 /\ s.isRecording
     THEN LET s1 == IF RecState(s.recorders[ref]) = "recording"
                    THEN [s EXCEPT !.recorders[ref] = Inactivate(@)] ELSE s
              s2 == setIsRecording(s1, FALSE)
          IN IF s2.intervalRef THEN [s2 EXCEPT !.intervalRef = FALSE] ELSE s2
     ELSE s

\* lines 394-395: resetRecording after its await
resetFinish(s) == setPermissionStatus(s, "unknown")

\* lines 389-393: resetRecording up to its await
resetRecording(s) ==
  LET s1 == markOld(markStale(
              setError(setRecordingTime(setRecordedBlob(s, NoBlob), 0), Null)))
  IN IF s1.isCleaningUpRef
     THEN resetFinish(s1)
     ELSE [cleanupBody(s1) EXCEPT !.resetWaiting = TRUE]

\* ondataavailable keeping the empty chunks too
ondataavailable_KeepsAll(rec, size) == [rec EXCEPT !.chunks = Append(@, size)]

\* lines 288-293
ondataavailable(rec, size) ==
  IF size > 0 THEN [rec EXCEPT !.chunks = Append(@, size)] ELSE rec

\* onstop reading the mode selected when the stop event arrives
onstop_CurrentMode(s, r) ==
  LET rec == s.recorders[r]
      s1  == IF Len(rec.chunks) > 0
             THEN setRecordedBlob(s, [type |-> IF s.recordingMode = "video"
                                               THEN "video/webm" ELSE "audio/webm",
                                      chunks |-> rec.chunks])
             ELSE setError(s, MsgNoData)
      s2  == IF HasVideoEl(s1) THEN [s1 EXCEPT !.videoSrc = 0] ELSE s1
  IN setIsVideoEnabled(s2, FALSE)

\* onstop building a blob whether or not a chunk was kept
onstop_AlwaysBlob(s, r) ==
  LET rec == s.recorders[r]
      s1  == setRecordedBlob(s, [type |-> IF rec.mode = "video" THEN "video/webm"
                                          ELSE "audio/webm",
                                 chunks |-> rec.chunks])
      s2  == IF HasVideoEl(s1) THEN [s1 EXCEPT !.videoSrc = 0] ELSE s1
  IN setIsVideoEnabled(s2, FALSE)

\* lines 295-312
onstop(s, r) ==
  LET rec == s.recorders[r]
      s1  == IF Len(rec.chunks) > 0
             THEN setRecordedBlob(s, [type |-> IF rec.mode = "video" THEN "video/webm"
                                               ELSE "audio/webm",
                                      chunks |-> rec.chunks])
             ELSE setError(s, MsgNoData)
      s2  == IF HasVideoEl(s1) THEN [s1 EXCEPT !.videoSrc = 0] ELSE s1
  IN setIsVideoEnabled(s2, FALSE)

\* onerror reporting the error and leaving isRecording alone
onerror_KeepsRecording(s, msg) == setError(s, msg)

\* lines 314-319
onerror(s, msg) == setIsRecording(setError(s, msg), FALSE)

\* lines 321-324
onstart(s) == setError(s, Null)

\* ------------------------------------------------------------ initial state
Init ==
  /\ mounted = TRUE
  /\ isRecording = FALSE
  /\ recordedBlob = NoBlob
  /\ recordingTime = 0
  /\ recordingMode = "audio"
  /\ isVideoEnabled = FALSE
  /\ permissionStatus = "unknown"
  /\ isInitializing = FALSE
  /\ error = Null
  /\ mediaRecorderRef = 0
  /\ streamRef = 0
  /\ intervalRef = FALSE
  /\ isCleaningUpRef = FALSE
  /\ videoSrc = 0
  /\ leaked = 0
  /\ streams = [sid \in Streams |-> NoStream]
  /\ recorders = [r \in Recorders |-> NoRecorder]
  /\ attempts = [i \in Attempts |-> NoAttempt]
  /\ resetWaiting = FALSE
  /\ unmountWaiting = FALSE
  /\ starts = 0
  /\ platform \in Platforms
  /\ delivered = << >>
  /\ download = NoDownload
  /\ auth = SignedIn
  /\ gsi = GsiLoaded
  /\ button = NoButton

Step(s) ==
  /\ Apply(Normalize(s)) /\ delivered' = delivered /\ download' = download
  /\ auth' = auth /\ gsi' = gsi /\ button' = button

\* ------------------------------------------------------------ user events
\* the start button (lines 531-537): shown while not recording, disabled
\* while initializing
ClickStart ==
  /\ mounted /\ ~isRecording /\ ~isInitializing
  /\ HasFreeAttempt(Cur) /\ starts < MaxStarts
  /\ \E throws \in Throws :
       /\ LiveStream(Cur, streamRef) =>
            CanSetup(Cur, recordingMode, streamRef, platform, throws)
       /\ Step(startRecording([Cur EXCEPT !.starts = @ + 1], FreeAttempt(Cur),
                              platform, throws))

\* the stop button (lines 553-561): shown while recording
ClickStop ==
  /\ mounted /\ isRecording
  /\ Step(stopRecording(Cur))

\* the mode buttons staying enabled during a recording
ClickMode_WhileRecording ==
  /\ mounted /\ ~isInitializing
  /\ \E m \in Modes :
       LET s1 == resetRecording(Cur)
       IN Step([s1 EXCEPT !.recordingMode = m,
                          !.videoSrc = IF m = "video" THEN @ ELSE 0])

\* the mode buttons (lines 419-446): disabled while recording or initializing
ClickMode ==
  /\ mounted /\ ~(isRecording \/ isInitializing)
  /\ \E m \in Modes :
       LET s1 == resetRecording(Cur)
       IN Step([s1 EXCEPT !.recordingMode = m,
                          !.videoSrc = IF m = "video" THEN @ ELSE 0])

\* the "Nouveau" button (lines 598-606): shown while an artifact is held
ClickReset ==
  /\ mounted /\ recordedBlob # NoBlob
  /\ Step(resetRecording(Cur))

\* lines 21-25: the component is unmounted, its effect cleanup runs
\* The useState values and the <video> element of the component are gone with
\* it; the refs and the closures of the calls in flight stay.
unmount(s) ==
  LET s1 == [markStale(s) EXCEPT !.mounted = FALSE, !.videoSrc = 0,
                       !.isRecording = FALSE, !.recordedBlob = NoBlob,
                       !.recordingTime = 0, !.recordingMode = "audio",
                       !.isVideoEnabled = FALSE, !.permissionStatus = "unknown",
                       !.isInitializing = FALSE, !.error = Null]
  IN IF s1.isCleaningUpRef THEN s1
     ELSE [cleanupBody(s1) EXCEPT !.unmountWaiting = TRUE]

\* the user leaves the record page for the other route
Unmount ==
  /\ mounted
  /\ Apply(Normalize(unmount(Cur)))
  /\ delivered' = delivered /\ download' = download
  /\ auth' = [auth EXCEPT !.route = "/"]
  /\ gsi' = gsi /\ button' = button

\* ------------------------------------------------------------ continuations
\* line 77: enumerateDevices has answered call i
EnumerateDoneWith(i, hasAudio, hasVideo) ==
  /\ attempts[i].pc = "enum"
  /\ Step(afterEnumerate(Cur, i, hasAudio, hasVideo))

EnumerateDone ==
  \E i \in Attempts, hasAudio \in BOOLEAN, hasVideo \in BOOLEAN :
    EnumerateDoneWith(i, hasAudio, hasVideo)

\* line 105: the delay of the cleanup before the acquisition is over
CleanWaitDone ==
  \E i \in Attempts :
    /\ attempts[i].pc = "cleanWait"
    /\ Step([cleanupFinally(Cur) EXCEPT !.attempts[i].pc = "settle"])

\* lines 108-140: the 200 ms are over, getUserMedia is called
SettleDone ==
  \E i \in Attempts :
    /\ attempts[i].pc = "settle"
    /\ Step([Cur EXCEPT !.attempts[i].pc = "gum"])

\* line 140: getUserMedia has delivered to call i a stream with the live
\* tracks lv
GetUserMediaResolveWith(i, hasTracks, lv, throws) ==
  /\ attempts[i].pc \in {"gum", "gumStale"}
  /\ ~hasTracks => lv = {}
  /\ lv # {} => HasFreeStream(Cur)
  /\ (lv # {} /\ ~(attempts[i].mode = "video" /\ HasVideoEl(Cur))) =>
       /\ HasFreeRecorder(Cur)
       /\ leaked < MaxLeaked
  /\ Step(afterGetUserMedia(Cur, i, hasTracks, lv, platform, throws))

GetUserMediaResolve ==
  \E i \in Attempts, hasTracks \in BOOLEAN, throws \in Throws :
    \E lv \in {{}, TracksOf(attempts[i].mode)} :
      GetUserMediaResolveWith(i, hasTracks, lv, throws)

\* line 140: getUserMedia has rejected for call i with the error e
GetUserMediaRejectWith(i, e) ==
  /\ attempts[i].pc \in {"gum", "gumStale"}
  /\ Step(reqCatch(Cur, i, e))

GetUserMediaReject ==
  \E i \in Attempts, e \in GumErrorsFollowed : GetUserMediaRejectWith(i, e)

PlaySettled ==
  \E i \in Attempts, played \in BOOLEAN, throws \in Throws :
    /\ attempts[i].pc = "play"
    /\ CanSetup(Cur, attempts[i].mode, attempts[i].stream, platform, throws)
    /\ Step(afterPlay(Cur, i, played, platform, throws))

\* line 183: the delay of the cleanup in requestMediaAccess' catch is over
ErrCleanWaitDone ==
  \E i \in Attempts :
    /\ attempts[i].pc = "errCleanWait"
    /\ Step(reqCatchRest([cleanupFinally(Cur) EXCEPT !.attempts[i].err = Null],
                         i, attempts[i].err))

\* line 347: the delay of the cleanup in startRecording's catch is over
CatchCleanWaitDone ==
  \E i \in Attempts :
    /\ attempts[i].pc = "catchCleanWait"
    /\ Step(finishAttempt(cleanupFinally(Cur), i))

\* line 393: the delay of resetRecording's cleanup is over
ResetCleanDone ==
  /\ resetWaiting
  /\ Step(resetFinish([cleanupFinally(Cur) EXCEPT !.resetWaiting = FALSE]))

\* line 23: the delay of the unmount's cleanup is over
UnmountCleanDone ==
  /\ unmountWaiting
  /\ Step([cleanupFinally(Cur) EXCEPT !.unmountWaiting = FALSE])

\* ------------------------------------------------------------ platform events
RecorderStarted ==
  \E r \in Recorders :
    /\ recorders[r].phase \in {"starting", "flushStart"}
    /\ Step(onstart([Cur EXCEPT !.recorders[r].phase =
                       IF @ = "starting" THEN "recording" ELSE "flush"]))

\* every second of a recording (start(1000)): recorder r delivers a chunk
DataAvailableWith(r, size) ==
  /\ recorders[r].phase = "recording"
  /\ size > 0 => Len(recorders[r].chunks) < MaxChunks
  /\ Step([Cur EXCEPT !.recorders[r] = ondataavailable(@, size)])

DataAvailable ==
  \E r \in Recorders, size \in ChunkSizes : DataAvailableWith(r, size)

\* the encoder fails: the error event, then the recorder is inactivated
RecorderErrorWith(r, msg) ==
  /\ recorders[r].phase = "recording"
  /\ Step(onerror([Cur EXCEPT !.recorders[r] = Inactivate(@)], msg))

RecorderError ==
  \E r \in Recorders, msg \in {MsgRecorderError} : RecorderErrorWith(r, msg)

\* an inactivated recorder delivers its last chunk, then the stop event
RecorderStoppedWith(r, size) ==
  /\ recorders[r].phase = "flush"
  /\ size > 0 => Len(recorders[r].chunks) < MaxChunks
  /\ LET s1 == [Cur EXCEPT !.recorders[r] = ondataavailable(@, size)]
     IN Step(onstop([s1 EXCEPT !.recorders[r].phase = "done"], r))

RecorderStopped ==
  \E r \in Recorders, size \in ChunkSizes : RecorderStoppedWith(r, size)

\* a device is unplugged or its permission revoked: the tracks of a stream
\* end by themselves, all at once
TrackEnded ==
  \E sid \in Streams :
    /\ streams[sid].live # {}
    /\ Step(EndTracks(Cur, sid, Tracks))

\* lines 331-333: every running interval adds one second
Tick ==
  /\ mounted
  /\ intervalRef \/ leaked > 0
  /\ recordingTime < MaxTime
  /\ Step(setRecordingTime(Cur, recordingTime + 1))

Next ==
  \/ ClickStart \/ ClickStop \/ ClickMode \/ ClickReset \/ Unmount
  \/ EnumerateDone \/ CleanWaitDone \/ SettleDone
  \/ GetUserMediaResolve \/ GetUserMediaReject \/ PlaySettled
  \/ ErrCleanWaitDone \/ CatchCleanWaitDone \/ ResetCleanDone \/ UnmountCleanDone
  \/ RecorderStarted \/ DataAvailable \/ RecorderError \/ RecorderStopped
  \/ TrackEnded \/ Tick

Spec == Init /\ [][Next]_vars

\* ------------------------------------------------------------ one recording
\* The buffer of one recording, with every size a chunk can have: a recording
\* has just been started in either mode (the state startRecording leaves on
\* success), chunks arrive, the recording is stopped or fails.
InitChunks ==
  \E m \in Modes :
    /\ platform \in {p \in Platforms : SelectMimeType(m, p) # ""}
    /\ mounted = TRUE
    /\ isRecording = TRUE
    /\ recordedBlob = NoBlob
    /\ recordingTime = 0
    /\ recordingMode = m
    /\ isVideoEnabled = (m = "video")
    /\ permissionStatus = "granted"
    /\ isInitializing = FALSE
    /\ error = Null
    /\ mediaRecorderRef = 1
    /\ streamRef = 1
    /\ intervalRef = TRUE
    /\ isCleaningUpRef = FALSE
    /\ videoSrc = IF m = "video" THEN 1 ELSE 0
    /\ leaked = 0
    /\ streams = [sid \in Streams |->
                    IF sid = 1 THEN [live |-> TracksOf(m), mode |-> m] ELSE NoStream]
    /\ recorders = [r \in Recorders |->
                      IF r = 1
                      THEN [phase |-> "starting", stream |-> 1, mode |-> m,
                            mimeType |-> SelectMimeType(m, platform),
                            chunks |-> << >>, old |-> FALSE]
                      ELSE NoRecorder]
    /\ attempts = [i \in Attempts |-> NoAttempt]
    /\ resetWaiting = FALSE
    /\ unmountWaiting = FALSE
    /\ starts = 1
    /\ delivered = << >>
  /\ download = NoDownload
  /\ auth = SignedIn
  /\ gsi = GsiLoaded
  /\ button = NoButton

\* every second of the recording: a chunk of any size
DeliverChunk ==
  \E r \in Recorders, size \in WideSizes :
    /\ recorders[r].phase = "recording"
    /\ Len(delivered) + 1 < MaxDelivered
    /\ Apply(Normalize([Cur EXCEPT !.recorders[r] = ondataavailable(@, size)]))
    /\ delivered' = Append(delivered, size)
    /\ download' = download /\ auth' = auth /\ gsi' = gsi /\ button' = button

\* the last chunk of the inactivated recorder, then its stop event
FinalChunk ==
  \E r \in Recorders, size \in WideSizes :
    /\ recorders[r].phase = "flush"
    /\ Len(delivered) < MaxDelivered
    /\ LET s1 == [Cur EXCEPT !.recorders[r] = ondataavailable(@, size)]
       IN Apply(Normalize(onstop([s1 EXCEPT !.recorders[r].phase = "done"], r)))
    /\ delivered' = Append(delivered, size)
    /\ download' = download /\ auth' = auth /\ gsi' = gsi /\ button' = button

NextChunks ==
  RecorderStarted \/ DeliverChunk \/ ClickStop \/ RecorderError \/ FinalChunk

SpecChunks == InitChunks /\ [][NextChunks]_vars

\* ------------------------------------------------------------ authentication
\* ProtectedRoute rendering every route for any user, signed in or not
ProtectedRoute_NoUserCheck(a) == IF a.isLoading THEN "spinner" ELSE "children"

\* ProtectedRoute (lines 9-39): what it renders
ProtectedRoute(a) ==
  IF a.isLoading THEN "spinner"
  ELSE IF a.user = Null THEN "signin"
  ELSE "children"

\* App (lines 24-31): RecordPage is rendered
ShowsRecordPage(a) == a.route = "/record" /\ ProtectedRoute(a) = "children"

\* the page left nothing behind: mounting it again is mounting a new one
LeftNothing ==
  /\ streamRef = 0 /\ mediaRecorderRef = 0 /\ ~intervalRef /\ ~isCleaningUpRef
  /\ leaked = 0 /\ ~resetWaiting /\ ~unmountWaiting
  /\ \A i \in Attempts : attempts[i].pc = "idle"
  /\ \A r \in Recorders : recorders[r].phase = "free"
  /\ \A sid \in Streams : streams[sid].live = {}

\* the authentication or the route changes and App is rendered again: the
\* record page is unmounted, mounted, or stays as it is, and so is the
\* sign-in button of ProtectedRoute (lines 20-36).  A page is mounted
\* again only once the page before it has left nothing behind.
Show(a) ==
  /\ auth' = a
  /\ delivered' = delivered /\ download' = download
  /\ button' = IF ProtectedRoute(a) # "signin" THEN NoButton
               ELSE IF button.mounted THEN button ELSE NewButton
  /\ IF mounted /\ ~ShowsRecordPage(a) THEN Apply(Normalize(unmount(Cur)))
     ELSE IF ~mounted /\ ShowsRecordPage(a)
          THEN LeftNothing /\ Apply([Cur EXCEPT !.mounted = TRUE])
     ELSE Apply(Cur)

\* the same, the Google Identity script being left as it is
Render(a) == Show(a) /\ gsi' = gsi

\* AuthProvider's effect (lines 14-37): the saved user, if any, is taken over
AuthLoaded ==
  /\ auth.isLoading
  /\ \E savedUser \in {Null, "user"} :
       Render([auth EXCEPT !.user = IF savedUser # Null THEN savedUser ELSE @,
                           !.isLoading = FALSE])

\* handleCredentialResponse (lines 50-67): the credential is decoded or not
CredentialResponse ==
  /\ ~auth.isLoading
  /\ \E decoded \in BOOLEAN :
       Render(IF decoded THEN [auth EXCEPT !.user = "user"] ELSE auth)

\* signOut (lines 75-81)
SignOut ==
  /\ auth.user # Null
  /\ Render([auth EXCEPT !.user = Null])

\* a link to the other route is followed
Navigate == \E r \in Routes \ {auth.route} : Render([auth EXCEPT !.route = r])

\* The application from its first rendering: the authentication resolves,
\* the user signs in and out and changes route, and the record page, while
\* mounted, starts and stops recordings.
InitAuth ==
  /\ platform \in Platforms
  /\ auth \in [user : {Null}, isLoading : {TRUE}, route : Routes]
  /\ mounted = FALSE
  /\ isRecording = FALSE
  /\ recordedBlob = NoBlob
  /\ recordingTime = 0
  /\ recordingMode = "audio"
  /\ isVideoEnabled = FALSE
  /\ permissionStatus = "unknown"
  /\ isInitializing = FALSE
  /\ error = Null
  /\ mediaRecorderRef = 0
  /\ streamRef = 0
  /\ intervalRef = FALSE
  /\ isCleaningUpRef = FALSE
  /\ videoSrc = 0
  /\ leaked = 0
  /\ streams = [sid \in Streams |-> NoStream]
  /\ recorders = [r \in Recorders |-> NoRecorder]
  /\ attempts = [i \in Attempts |-> NoAttempt]
  /\ resetWaiting = FALSE
  /\ unmountWaiting = FALSE
  /\ starts = 0
  /\ delivered = << >>
  /\ download = NoDownload
  /\ gsi = GsiLoaded
  /\ button = NoButton

NextAuth ==
  \/ AuthLoaded \/ CredentialResponse \/ SignOut \/ Navigate
  \/ ClickStart \/ ClickStop \/ EnumerateDone \/ CleanWaitDone \/ SettleDone
  \/ GetUserMediaResolve \/ ErrCleanWaitDone \/ CatchCleanWaitDone
  \/ UnmountCleanDone \/ RecorderStarted \/ RecorderStopped

SpecAuth == InitAuth /\ [][NextAuth]_vars

\* ------------------------------------------------------------ sign-in
\* what window.google is: undefined, defined without accounts.id, complete
Apis == {"none", "noid", "ready"}

\* initializeGoogleSignIn leaving isLoading alone when initialize throws
initializeGoogleSignIn_NoFinally(a, api, throws) ==
  IF api # "ready" THEN [a EXCEPT !.isLoading = FALSE]
  ELSE IF throws THEN a
  ELSE [a EXCEPT !.isLoading = FALSE]

\* AuthProvider, second revision (lines 59-81): initializeGoogleSignIn
initializeGoogleSignIn(a, api, throws) ==
  IF api # "ready" THEN [a EXCEPT !.isLoading = FALSE]
  ELSE IF throws THEN [a EXCEPT !.isLoading = FALSE]
  ELSE [a EXCEPT !.isLoading = FALSE]

\* AuthProvider's effect (lines 15-57): the saved user is taken over, and
\* the script is loaded, or Google Sign-In initialized, or nothing is done
ProviderEffect ==
  /\ gsi.effect = "todo"
  /\ \E savedUser \in {Null, "user"}, throws \in BOOLEAN :
       LET a1 == IF savedUser # Null THEN [auth EXCEPT !.user = savedUser] ELSE auth
       IN IF gsi.api = "none" /\ gsi.script = "absent"
          THEN /\ Show(a1)
               /\ gsi' = [gsi EXCEPT !.script = "loading", !.effect = "done"]
          ELSE IF gsi.api # "none"
          THEN /\ Show(initializeGoogleSignIn(a1, gsi.api, throws))
               /\ gsi' = [gsi EXCEPT !.effect = "done"]
          ELSE /\ Show([a1 EXCEPT !.isLoading = FALSE])
               /\ gsi' = [gsi EXCEPT !.effect = "done"]

\* script.onload (lines 29-32): the script has run, whatever it has defined
ScriptLoaded ==
  /\ gsi.script = "loading"
  /\ \E api \in Apis, throws \in BOOLEAN :
       /\ Show(initializeGoogleSignIn(auth, api, throws))
       /\ gsi' = [gsi EXCEPT !.script = "loaded", !.api = api]

\* script.onerror (lines 34-37)
ScriptFailed ==
  /\ gsi.script = "loading"
  /\ Show([auth EXCEPT !.isLoading = FALSE])
  /\ gsi' = [gsi EXCEPT !.script = "failed"]

\* a script element the page had before AuthProvider was mounted has run
GoogleDefined ==
  /\ gsi.script = "present" /\ gsi.api = "none"
  /\ gsi' = [gsi EXCEPT !.script = "loaded", !.api = "ready"]
  /\ Apply(Cur) /\ delivered' = delivered /\ download' = download
  /\ auth' = auth /\ button' = button

\* GoogleSignInButton (lines 11-45): its effect runs after a rendering whose
\* isInitialized or isLoading differs from those of the rendering of the
\* last run.  The cleanup the last run has returned runs first; the effect
\* sees the isInitialized of its rendering; the state set last is the next
\* rendering's.
buttonEffect(b, isLoading, api, throws) ==
  LET seen == b.isInitialized
      b1 == IF b.hasCleanup
            THEN [b EXCEPT !.content = FALSE, !.isInitialized = FALSE,
                           !.hasCleanup = FALSE]
            ELSE b
      b2 == IF seen \/ isLoading \/ api = "none" THEN b1
            ELSE IF api = "noid" \/ throws
            THEN [b1 EXCEPT !.content = FALSE, !.hasCleanup = TRUE]
            ELSE [b1 EXCEPT !.content = TRUE, !.calls = @ + 1,
                            !.isInitialized = TRUE, !.hasCleanup = TRUE]
  IN [b2 EXCEPT !.ran = TRUE, !.lastDeps = seen]

\* the effect of the button is due: it has not run since the mount, or
\* isInitialized has changed since its last run
EffectDue == button.mounted /\ (~button.ran \/ button.lastDeps # button.isInitialized)

ButtonCommit ==
  /\ EffectDue
  /\ \E throws \in BOOLEAN :
       LET b == buttonEffect(button, auth.isLoading, gsi.api, throws)
       IN b.calls <= MaxButtonRenders /\ button' = b
  /\ Apply(Cur) /\ delivered' = delivered /\ download' = download
  /\ auth' = auth /\ gsi' = gsi

\* the rendered button is clicked and Google answers with a credential
ButtonClicked == button.mounted /\ button.content /\ CredentialResponse

\* The application from its first rendering, second revision of
\* AuthProvider: the effect runs, the script loads or fails, the sign-in
\* button is rendered, the user signs in and out and changes route.
InitSignIn ==
  /\ platform \in Platforms
  /\ auth \in [user : {Null}, isLoading : {TRUE}, route : Routes]
  /\ gsi \in [script : {"absent", "present"}, api : Apis, effect : {"todo"}]
  /\ button = NoButton
  /\ mounted = FALSE
  /\ isRecording = FALSE
  /\ recordedBlob = NoBlob
  /\ recordingTime = 0
  /\ recordingMode = "audio"
  /\ isVideoEnabled = FALSE
  /\ permissionStatus = "unknown"
  /\ isInitializing = FALSE
  /\ error = Null
  /\ mediaRecorderRef = 0
  /\ streamRef = 0
  /\ intervalRef = FALSE
  /\ isCleaningUpRef = FALSE
  /\ videoSrc = 0
  /\ leaked = 0
  /\ streams = [sid \in Streams |-> NoStream]
  /\ recorders = [r \in Recorders |-> NoRecorder]
  /\ attempts = [i \in Attempts |-> NoAttempt]
  /\ resetWaiting = FALSE
  /\ unmountWaiting = FALSE
  /\ starts = 0
  /\ delivered = << >>
  /\ download = NoDownload

NextSignIn ==
  \/ ProviderEffect \/ ScriptLoaded \/ ScriptFailed \/ GoogleDefined
  \/ ButtonCommit \/ ButtonClicked \/ SignOut \/ Navigate \/ UnmountCleanDone

SpecSignIn == InitSignIn /\ [][NextSignIn]_vars

\* React runs the effect of a mounted component, and the browser fires the
\* load or the error event of a script element that was appended
SpecSignInFair ==
  SpecSignIn /\ WF_vars(ProviderEffect) /\ WF_vars(ScriptLoaded \/ ScriptFailed)

\* ------------------------------------------------------------ downloads
\* new Date().toISOString() at two instants, character by character
Instants == { << "2", "0", "2", "4", "-", "0", "5", "-", "0", "6", "T", "0", "7", ":", "0", "8", ":", "0", "9", ".", "1", "2", "3", "Z" >>,
              << "2", "0", "2", "5", "-", "1", "2", "-", "3", "1", "T", "2", "3", ":", "5", "9", ":", "5", "9", ".", "9", "9", "9", "Z" >> }

\* .slice(0, 19)
Slice19(str) == SubSeq(str, 1, IF Len(str) < 19 THEN Len(str) ELSE 19)

\* .replace(/:/g, '-')
ReplaceColons(str) == [k \in 1..Len(str) |-> IF str[k] = ":" THEN "-" ELSE str[k]]

\* lines 374-387: the name given to the file
downloadRecording(s, now) ==
  [prefix    |-> IF s.recordingMode = "video" THEN "video" ELSE "audio",
   stamp     |-> ReplaceColons(Slice19(now)),
   extension |-> IF s.recordingMode = "video" THEN "webm" ELSE "webm"]

\* the "Telecharger" button (lines 588-596): shown while an artifact is held;
\* the handler leaves the component as it is
ClickDownload ==
  /\ mounted /\ recordedBlob # NoBlob
  /\ \E now \in Instants : download' = downloadRecording(Cur, now)
  /\ Apply(Cur) /\ delivered' = delivered /\ auth' = auth
  /\ gsi' = gsi /\ button' = button

\* One recording and the files saved from its artifact: a recording has just
\* been started (InitChunks), chunks arrive, it is stopped or fails, the
\* artifact is downloaded.
NextDownload ==
  RecorderStarted \/ DeliverChunk \/ ClickStop \/ RecorderError \/ FinalChunk
    \/ ClickDownload

SpecDownload == InitChunks /\ [][NextDownload]_vars

\* ------------------------------------------------------------ one format choice
\* every type startRecording can ask isTypeSupported about
AllTypes == {VideoTypes[k] : k \in 1..Len(VideoTypes)} \cup
            {AudioTypes[k] : k \in 1..Len(AudioTypes)}

\* The choice of the format on every platform there can be: a call in either
\* mode is waiting for getUserMedia (the state the first click on the start
\* button leads to), the stream arrives, the recorder is set up.
InitFormats ==
  \E m \in Modes :
    /\ platform \in SUBSET AllTypes
    /\ mounted = TRUE
    /\ isRecording = FALSE
    /\ recordedBlob = NoBlob
    /\ recordingTime = 0
    /\ recordingMode = m
    /\ isVideoEnabled = FALSE
    /\ permissionStatus = "unknown"
    /\ isInitializing = TRUE
    /\ error = Null
    /\ mediaRecorderRef = 0
    /\ streamRef = 0
    /\ intervalRef = FALSE
    /\ isCleaningUpRef = FALSE
    /\ videoSrc = 0
    /\ leaked = 0
    /\ streams = [sid \in Streams |-> NoStream]
    /\ recorders = [r \in Recorders |-> NoRecorder]
    /\ attempts = [i \in Attempts |->
                     IF i = 1 THEN [pc |-> "gum", mode |-> m, stream |-> 0, err |-> Null]
                     ELSE NoAttempt]
    /\ resetWaiting = FALSE
    /\ unmountWaiting = FALSE
    /\ starts = 1
    /\ delivered = << >>
  /\ download = NoDownload
  /\ auth = SignedIn
  /\ gsi = GsiLoaded
  /\ button = NoButton

NextFormats ==
  GetUserMediaResolve \/ PlaySettled \/ ErrCleanWaitDone \/ CatchCleanWaitDone

SpecFormats == InitFormats /\ [][NextFormats]_vars

\* ------------------------------------------------------------ one rejection
\* The report of every rejection getUserMedia can answer with: a call in
\* either mode is waiting for getUserMedia (InitFormats), the rejection
\* arrives, the call runs out through its catch blocks.
GetUserMediaRejectAny ==
  \E i \in Attempts, e \in GumErrors : GetUserMediaRejectWith(i, e)

NextErrors == GetUserMediaRejectAny \/ ErrCleanWaitDone \/ CatchCleanWaitDone

SpecErrors == InitFormats /\ [][NextErrors]_vars

\* ------------------------------------------------------------ vocabulary of the properties
InFlight == {i \in Attempts : attempts[i].pc # "idle"}

\* a recorder has been stopped and its stop event is still to come
Finalizing == \E r \in Recorders : recorders[r].phase \in {"flushStart", "flush"}

LiveStreams == {sid \in Streams : streams[sid].live # {}}

\* neither initializing, nor recording, nor awaiting finalization
Quiescent ==
  mounted /\ ~isInitializing /\ ~isRecording /\ InFlight = {} /\ ~Finalizing

\* a step in which a call of startRecording returns
Completes(i) == attempts[i].pc # "idle" /\ attempts'[i].pc = "idle"

\* a step in which a constructed recorder is started
RecorderStarts == \E r \in Recorders : recorders[r].phase = "free" /\ recorders'[r].phase = "starting"

\* a step in which a call of startRecording returns from its catch block
FailedCompletion == \E i \in Attempts : Completes(i) /\ ~RecorderStarts

\* a recording was made with the recorder in mediaRecorderRef and has ended
RecordingStopped ==
  /\ ~isRecording /\ mediaRecorderRef # 0
  /\ recorders[mediaRecorderRef].phase \in {"flushStart", "flush", "done"}

\* ------------------------------------------------------------ C1
\* C1: in every state that is neither initializing, nor recording,
\* nor awaiting a recorder's finalization, streamRef holds no stream with a
\* live track.
C1_NoLiveStreamWhenQuiescent == Quiescent => ~LiveStream(Cur, streamRef)

\* ------------------------------------------------------------ C2
\* C2: when resetRecording is requested after a recording was started and
\* stopped, and the request leaves the controller idle (not recording, not
\* initializing, no artifact), every track of the stream of that recording is
\* non-live from then on, so also when resetRecording completes.
C2_StreamReleasedAfterReset ==
  [][ ((ClickReset \/ ClickMode) /\ RecordingStopped
         /\ ~isRecording' /\ ~isInitializing' /\ recordedBlob' = NoBlob) =>
        streams'[recorders[mediaRecorderRef].stream].live = {} ]_vars

\* ------------------------------------------------------------ C3
\* C3: whenever isRecording is false, no tick timer runs and mediaRecorderRef
\* holds no recorder whose state is other than inactive.
C3_NoTimerNoRecorderWhenNotRecording ==
  (mounted /\ ~isRecording) =>
     /\ ~intervalRef /\ leaked = 0
     /\ mediaRecorderRef # 0 => RecState(recorders[mediaRecorderRef]) = "inactive"

\* ------------------------------------------------------------ C4
\* C4: when a failed start attempt has completed, error holds a message and
\* isRecording and isInitializing are false.
C4_ErrorStateAfterFailedStart ==
  [][ (FailedCompletion /\ mounted') =>
        (error' # Null /\ ~isRecording' /\ ~isInitializing') ]_vars

\* ------------------------------------------------------------ C5
\* C5: when a failed start attempt completes (no other attempt being in
\* flight), no stream has a live track and the stream, recorder and timer
\* references are cleared.
C5_NoLeakOnFailedStart ==
  [][ (FailedCompletion /\ Cardinality(InFlight) = 1) =>
        /\ \A sid \in Streams : streams'[sid].live = {}
        /\ streamRef' = 0 /\ mediaRecorderRef' = 0 /\ ~intervalRef' ]_vars

\* ------------------------------------------------------------ C6
\* C6: at no time are two calls of startRecording in flight.
C6_AtMostOneAttempt == Cardinality(InFlight) <= 1

\* ------------------------------------------------------------ C7
\* C7: the stream of an acquisition that was pending when the session was
\* reset, changed mode or was unmounted is not applied when it arrives: it is
\* not put in streamRef nor in the preview, no track of it stays live and no
\* recorder is started on it.
C7_LateStreamNotApplied ==
  [][ \A i \in Attempts :
        (attempts[i].pc = "gumStale" /\ attempts'[i].pc # "gumStale") =>
           /\ streamRef' \in {streamRef, 0}
           /\ videoSrc' \in {videoSrc, 0}
           /\ \A sid \in Streams : streams'[sid].live \subseteq streams[sid].live
           /\ ~RecorderStarts ]_vars

\* ------------------------------------------------------------ C8
\* C8: once the component is unmounted, nothing of the session is left or
\* comes back: no stream is held, no track is live, no recorder records, no
\* interval runs.
C8_NothingAfterUnmount ==
  ~mounted =>
     /\ streamRef = 0 /\ LiveStreams = {}
     /\ ~intervalRef /\ leaked = 0
     /\ \A r \in Recorders : RecState(recorders[r]) = "inactive"

\* ------------------------------------------------------------ C9
\* C9: at most one stream with a live track exists at any time.
C9_AtMostOneLiveStream == Cardinality(LiveStreams) <= 1

\* ------------------------------------------------------------ C10
\* C10: while isRecording is true a request to change recordingMode is
\* rejected: no step taken from such a state is a run of the mode buttons'
\* handler (which would reset the session), and none changes recordingMode
\* while the page stays mounted.
C10_ModeChangeRejectedWhileRecording ==
  [][ (mounted /\ isRecording) =>
        (~ClickMode /\ (mounted' => recordingMode' = recordingMode)) ]_vars

\* a recording is running, with a chunk buffered and its timer ticking
C10_Witness ==
  /\ mounted /\ isRecording /\ intervalRef
  /\ mediaRecorderRef # 0
  /\ recorders[mediaRecorderRef].phase = "recording"
  /\ Len(recorders[mediaRecorderRef].chunks) > 0
  /\ LiveStream(Cur, streamRef)

\* ------------------------------------------------------------ C11
\* C11: after every run of the mode buttons' handler no track that was live
\* before is still live, and mediaRecorderRef and intervalRef are cleared.
C11_ModeChangeTearsDown ==
  [][ ClickMode =>
        /\ \A sid \in Streams : streams'[sid].live = {}
        /\ mediaRecorderRef' = 0 /\ ~intervalRef' ]_vars

\* ------------------------------------------------------------ C12
\* C12: when the stop event of a recording arrives and no chunk of non-zero
\* size was delivered to it (none before, and the last one is empty), error
\* becomes 'Aucune donnee enregistree' and recordedBlob is left as it was.
C12_NoDataNoArtifact ==
  [][ \A r \in Recorders :
        (RecorderStoppedWith(r, 0) /\ mounted /\ Len(recorders[r].chunks) = 0) =>
           (error' = MsgNoData /\ recordedBlob' = recordedBlob) ]_vars

\* a recording has ended without data: the error is shown, no artifact is held
C12_Witness ==
  /\ mounted /\ error = MsgNoData /\ recordedBlob = NoBlob
  /\ mediaRecorderRef # 0
  /\ recorders[mediaRecorderRef].phase = "done"
  /\ recorders[mediaRecorderRef].chunks = << >>

\* ------------------------------------------------------------ C13
NonEmpty(size) == size > 0

\* the chunks of non-zero size among those delivered, in delivery order
Kept == SelectSeq(delivered, NonEmpty)

RECURSIVE Sum(_)
Sum(seq) == IF seq = << >> THEN 0 ELSE Head(seq) + Sum(Tail(seq))

\* blob.size
BlobSize(blob) == Sum(blob.chunks)

\* C13: the buffer of a recording holds, in delivery order, exactly the
\* chunks of non-zero size delivered to it; the artifact made at its stop is
\* that buffer, its size the sum of the kept sizes (120, 130, 0 give 250);
\* without a kept chunk no artifact is made.
C13_ArtifactIsKeptChunks ==
  /\ recorders[1].chunks = Kept
  /\ recorders[1].phase = "done" =>
        IF Kept = << >> THEN recordedBlob = NoBlob
        ELSE recordedBlob.chunks = Kept /\ BlobSize(recordedBlob) = Sum(Kept)
  /\ recorders[1].phase # "done" => recordedBlob = NoBlob
  /\ (recorders[1].phase = "done" /\ delivered = <<120, 130, 0>>) =>
        BlobSize(recordedBlob) = 250

\* the scenario of the specification: audio mode, chunks of 120, 130 and 0
\* bytes, then the stop
C13_Witness ==
  /\ delivered = <<120, 130, 0>>
  /\ recorders[1].phase = "done" /\ ~isRecording
  /\ recordedBlob.type = "audio/webm" /\ BlobSize(recordedBlob) = 250

\* ------------------------------------------------------------ C14
\* C14: the stop event of a recorder that existed when the session was reset
\* (resetRecording, directly or by a mode change) puts no artifact on show.
C14_NoArtifactFromBeforeReset ==
  [][ \A r \in Recorders : \A size \in ChunkSizes :
        (RecorderStoppedWith(r, size) /\ recorders[r].old) =>
          recordedBlob' = recordedBlob ]_vars

\* ------------------------------------------------------------ C15
\* the positions of a call that has failed and is on its way out
FailingPcs == {"errCleanWait", "catchCleanWait"}

\* call i is failing with the message msg, or has just ended with it
FailsWith(i, msg) ==
  \/ attempts'[i].pc \in FailingPcs /\ attempts'[i].err = msg
  \/ attempts'[i].pc = "idle" /\ (mounted => error' = msg)

\* C15: when enumerateDevices reports no audio input, the call fails with
\* the no-microphone message and goes on to nothing but its catch blocks and
\* its end: it never reaches the getUserMedia call, no recorder is started
\* and isRecording does not become true.
C15_NoMicrophoneFailsFast ==
  [][ \A i \in Attempts :
        /\ (\E hasVideo \in BOOLEAN : EnumerateDoneWith(i, FALSE, hasVideo)) =>
             /\ FailsWith(i, MsgNoMicrophone)
             /\ ~RecorderStarts
             /\ isRecording' => isRecording
        /\ (attempts[i].pc \in FailingPcs /\ attempts[i].err = MsgNoMicrophone) =>
             /\ attempts'[i] = attempts[i] \/ Completes(i)
                  \/ (attempts[i].pc = "errCleanWait" /\ FailsWith(i, MsgNoMicrophone))
             /\ Completes(i) => (~RecorderStarts /\ (isRecording' => isRecording)) ]_vars

\* a call at the end of its failure for want of a microphone
C15_Witness ==
  \E i \in Attempts :
    /\ attempts[i].pc = "catchCleanWait" /\ attempts[i].err = MsgNoMicrophone
    /\ ~isRecording /\ mediaRecorderRef = 0 /\ streamRef = 0

\* ------------------------------------------------------------ C16
\* a call failing with msg goes on to nothing but its catch blocks and its
\* end, and its end starts no recording
FailureRunsOut(i, msg) ==
  (attempts[i].pc \in FailingPcs /\ attempts[i].err = msg) =>
    /\ attempts'[i] = attempts[i] \/ Completes(i)
         \/ (attempts[i].pc = "errCleanWait" /\ FailsWith(i, msg))
    /\ Completes(i) => (~RecorderStarts /\ (isRecording' => isRecording))

\* no recorder object comes into being
NoRecorderMade ==
  \A r \in Recorders : recorders[r].phase = "free" => recorders'[r].phase = "free"

\* C16: when getUserMedia delivers a stream none of whose tracks is live,
\* the call fails: after the step no track is live that was not live before,
\* streamRef refers to no other stream than before, no recorder is
\* constructed or started, isRecording does not become true, and the call
\* runs out through its catch blocks.
C16_DeadStreamIsFailure ==
  [][ \A i \in Attempts :
        /\ (\E throws \in Throws : GetUserMediaResolveWith(i, TRUE, {}, throws)) =>
             /\ FailsWith(i, MsgNoActiveTrackObtained)
             /\ \A sid \in Streams : streams'[sid].live \subseteq streams[sid].live
             /\ streamRef' \in {streamRef, 0}
             /\ videoSrc' \in {videoSrc, 0}
             /\ NoRecorderMade /\ ~RecorderStarts
             /\ isRecording' => isRecording
        /\ FailureRunsOut(i, MsgNoActiveTrackObtained) ]_vars

\* a call at the end of its failure for want of a live track
C16_Witness ==
  \E i \in Attempts :
    /\ attempts[i].pc = "catchCleanWait" /\ attempts[i].err = MsgNoActiveTrackObtained
    /\ ~isRecording /\ mediaRecorderRef = 0 /\ streamRef = 0 /\ LiveStreams = {}

\* ------------------------------------------------------------ C17
\* C17: the error event of a recording recorder sets the error message and
\* clears isRecording in the same step, and leaves the recorder with its
\* buffer untouched and its stop event pending; the stop event of a recorder
\* whose buffer holds a chunk puts that buffer on show as the artifact.
C17_RecorderErrorSalvages ==
  [][ \A r \in Recorders :
        /\ (RecorderErrorWith(r, MsgRecorderError) /\ mounted) =>
             /\ error' = MsgRecorderError /\ ~isRecording'
             /\ recorders'[r].phase = "flush"
             /\ recorders'[r].chunks = recorders[r].chunks
        /\ \A size \in ChunkSizes :
             (RecorderStoppedWith(r, size) /\ mounted
                /\ ondataavailable(recorders[r], size).chunks # << >>) =>
               /\ recordedBlob' # NoBlob
               /\ recordedBlob'.chunks = ondataavailable(recorders[r], size).chunks
               /\ error' = error ]_vars

\* the artifact of a recording that failed, on show next to the message
C17_Witness ==
  /\ mounted /\ error = MsgRecorderError /\ ~isRecording
  /\ recordedBlob # NoBlob /\ recordedBlob.chunks = <<120>>

\* ------------------------------------------------------------ C18
\* isTypeSupported rejects every candidate of the mode's list
NoneSupported(mode) == \A k \in 1..Len(possibleTypes(mode)) : possibleTypes(mode)[k] \notin platform

\* C18: where the platform supports none of the candidates of a call's mode,
\* the call that comes to choose a format with a live stream in hand (at the
\* click when the stream is reused, when getUserMedia delivers, after
\* video.play()) fails with the no-format message and runs out through its
\* catch blocks; no recorder of such a mode ever exists, and where no mode
\* has a supported candidate isRecording is never true and no interval runs.
C18_NoFormatNoRecording ==
  [][ /\ \A i \in Attempts :
           /\ (/\ NoneSupported(attempts[i].mode)
               /\ \/ \E throws \in Throws :
                       /\ GetUserMediaResolveWith(i, TRUE, TracksOf(attempts[i].mode), throws)
                       /\ attempts'[i].pc # "play"
                  \/ /\ attempts[i].pc = "play" /\ attempts'[i].pc # "play"
                     /\ LiveStream(Cur, attempts[i].stream)) =>
                FailsWith(i, MsgNoFormat) /\ NoRecorderMade /\ ~isRecording'
           /\ FailureRunsOut(i, MsgNoFormat)
      /\ (ClickStart /\ LiveStream(Cur, streamRef) /\ NoneSupported(recordingMode)) =>
           FailsWith(FreeAttempt(Cur), MsgNoFormat) /\ NoRecorderMade /\ ~isRecording'
      /\ \A r \in Recorders :
           recorders'[r].phase # "free" => ~NoneSupported(recorders'[r].mode)
      /\ (\A m \in Modes : NoneSupported(m)) =>
           (~isRecording' /\ ~intervalRef' /\ leaked' = 0) ]_vars

\* a call at the end of its failure for want of a format, a live stream
\* having been acquired for it
C18_Witness ==
  \E i \in Attempts :
    /\ NoneSupported(attempts[i].mode)
    /\ attempts[i].pc = "catchCleanWait" /\ attempts[i].err = MsgNoFormat
    /\ permissionStatus = "granted"
    /\ ~isRecording /\ ~intervalRef /\ \A r \in Recorders : recorders[r].phase = "free"

\* ------------------------------------------------------------ C19
\* C19: the type of every recorder is an entry of the candidate list of the
\* recorder's mode which the platform supports, no entry before it in the
\* list is supported, and it is no entry of the other mode's list.
C19_FirstSupportedInListOrder ==
  \A r \in Recorders :
    recorders[r].phase # "free" =>
      LET types == possibleTypes(recorders[r].mode)
          other == possibleTypes(IF recorders[r].mode = "video" THEN "audio" ELSE "video")
      IN /\ \E k \in 1..Len(types) :
              /\ types[k] = recorders[r].mimeType
              /\ types[k] \in platform
              /\ \A j \in 1..(k - 1) : types[j] \notin platform
         /\ \A k \in 1..Len(other) : other[k] # recorders[r].mimeType

\* a recorder with the third entry of the video list, on a platform that
\* supports the third and the fourth entry but not the first two
C19_Witness ==
  \E r \in Recorders :
    /\ recorders[r].phase = "starting" /\ recorders[r].mode = "video"
    /\ recorders[r].mimeType = "video/webm"
    /\ {"video/webm", "video/mp4", "audio/webm;codecs=opus"} \subseteq platform
    /\ "video/webm;codecs=vp9,opus" \notin platform
    /\ "video/webm;codecs=vp8,opus" \notin platform

\* ------------------------------------------------------------ C20
\* the type given to the Blob of a recording of a mode
BlobTypeOf(mode) == IF mode = "video" THEN "video/webm" ELSE "audio/webm"

\* C20: a call of startRecording keeps, as long as it runs, the mode that
\* was selected when the start button was clicked; a recorder is constructed
\* by such a call only and has the call's mode; and the artifact made at the
\* stop event of a recorder has the video type for a recorder of video mode
\* and the audio type for one of audio mode.
C20_ArtifactTaggedWithStartMode ==
  [][ /\ \A i \in Attempts :
           /\ (attempts[i].pc = "idle" /\ attempts'[i].pc # "idle") =>
                (ClickStart /\ attempts'[i].mode = recordingMode)
           /\ (attempts[i].pc # "idle" /\ attempts'[i].pc # "idle") =>
                attempts'[i].mode = attempts[i].mode
      /\ \A r \in Recorders :
           /\ (recorders[r].phase = "free" /\ recorders'[r].phase # "free") =>
                \/ ClickStart /\ recorders'[r].mode = recordingMode
                \/ \E i \in Attempts :
                     /\ attempts[i].pc \in {"gum", "gumStale", "play"}
                     /\ attempts'[i] # attempts[i]
                     /\ recorders'[r].mode = attempts[i].mode
           /\ (recorders[r].phase # "free" /\ recorders'[r].phase # "free") =>
                recorders'[r].mode = recorders[r].mode
           /\ \A size \in ChunkSizes :
                (RecorderStoppedWith(r, size) /\ mounted
                   /\ ondataavailable(recorders[r], size).chunks # << >>) =>
                  recordedBlob'.type = BlobTypeOf(recorders[r].mode)
      /\ recordedBlob' # recordedBlob =>
           \/ recordedBlob' = NoBlob
           \/ \E r \in Recorders : \E size \in ChunkSizes : RecorderStoppedWith(r, size) ]_vars

\* the artifact of a recording started and stopped in video mode
C20_Witness ==
  /\ mounted /\ recordingMode = "video" /\ ~isRecording
  /\ mediaRecorderRef # 0
  /\ recorders[mediaRecorderRef].phase = "done"
  /\ recorders[mediaRecorderRef].mode = "video"
  /\ ~recorders[mediaRecorderRef].old
  /\ recordedBlob = [type |-> "video/webm", chunks |-> recorders[mediaRecorderRef].chunks]

\* ------------------------------------------------------------ C21
\* the file extension of the container of a MIME type
ExtensionOf(mimeType) ==
  CASE mimeType \in {"video/mp4", "audio/mp4"} -> "mp4"
    [] mimeType = "audio/ogg" -> "ogg"
    [] OTHER -> "webm"

\* C21: the file saved from the artifact of a recording is named after the
\* mode of that recording, a timestamp without ':' that is the first 19
\* characters of the ISO instant with '-' for ':', and the extension of the
\* container the recorder of that recording was constructed with.
C21_DownloadName ==
  download # NoDownload =>
    /\ download.prefix = recorders[1].mode
    /\ \A k \in 1..Len(download.stamp) : download.stamp[k] # ":"
    /\ Len(download.stamp) = 19
    /\ download.extension = ExtensionOf(recorders[1].mimeType)

\* ------------------------------------------------------------ C22
\* what a session holds: artifact, recordingTime, error, stream, recorder,
\* timer
HeldBy(s) ==
  << s.recordedBlob, s.recordingTime, s.error, s.streamRef, s.mediaRecorderRef,
     s.intervalRef >>

HoldsNothing == << NoBlob, 0, Null, 0, 0, FALSE >>

\* resetRecording is invoked: by the "Nouveau" button or by a mode button
ResetRequested == ClickReset \/ ClickMode

\* C22: a step that invokes resetRecording leaves a session that holds
\* nothing (no artifact, recordingTime 0, no error, no stream, no recorder,
\* no timer); invoked on a session that holds nothing it leaves it as it is;
\* and invoking it once more at once changes nothing of that.
C22_ResetIsIdempotentTeardown ==
  [][ ResetRequested =>
        /\ HeldBy(Cur') = HoldsNothing
        /\ HeldBy(Cur) = HoldsNothing => HeldBy(Cur') = HeldBy(Cur)
        /\ HeldBy(Normalize(resetRecording(Cur'))) = HeldBy(Cur') ]_vars

\* ------------------------------------------------------------ C23
\* the stop event of recorder r, its last chunk of the given size, makes a
\* new Blob and puts it on show
MakesArtifact(r, size) ==
  /\ RecorderStoppedWith(r, size) /\ mounted
  /\ ondataavailable(recorders[r], size).chunks # << >>

\* C23: an artifact comes into being at a stop event only; while one is
\* held, no step but a reset, a mode change or the unmount changes or removes
\* it, and no stop event puts another Blob in its place.
C23_ArtifactKeptUntilReset ==
  [][ /\ (recordedBlob = NoBlob /\ recordedBlob' # NoBlob) =>
           \E r \in Recorders : \E size \in ChunkSizes : MakesArtifact(r, size)
      /\ recordedBlob # NoBlob =>
           /\ recordedBlob' = recordedBlob \/ ResetRequested \/ Unmount
           /\ \A r \in Recorders : \A size \in ChunkSizes : ~MakesArtifact(r, size) ]_vars

\* ------------------------------------------------------------ C24
\* C24: after every step, a session in video mode whose recorder, made in
\* video mode, is recording has the stream of that recorder as the source of
\* the preview element, and a session in
\* audio mode has no preview source; the stop event of a recorder leaves the
\* preview without a source.
C24_PreviewFollowsVideoRecording ==
  [][ /\ (/\ mounted' /\ isRecording' /\ recordingMode' = "video"
          /\ mediaRecorderRef' # 0
          /\ recorders'[mediaRecorderRef'].mode = "video") =>
           videoSrc' = recorders'[mediaRecorderRef'].stream
      /\ (mounted' /\ recordingMode' = "audio") => videoSrc' = 0
      /\ \A r \in Recorders : \A size \in ChunkSizes :
           (RecorderStoppedWith(r, size) /\ mounted) => videoSrc' = 0 ]_vars

\* ------------------------------------------------------------ C25
\* the start button is shown and enabled (lines 531-537)
StartAccepted == mounted /\ ~isRecording /\ ~isInitializing

\* C25: the step that ends a failed call of startRecording leaves the
\* selected mode as it was, isInitializing false, and isRecording false unless
\* a recording was running before the step: the start button is shown and
\* enabled, or the stop button of that recording is.  A click on the start
\* button begins a call for the selected mode, which goes to the device
\* check and the acquisition unless a live stream is at hand.
C25_RetryAfterFailure ==
  [][ /\ (FailedCompletion /\ mounted') =>
           /\ recordingMode' = recordingMode
           /\ ~isInitializing'
           /\ isRecording' => isRecording
           /\ ~isRecording => StartAccepted'
      /\ ClickStart =>
           LET i == FreeAttempt(Cur)
           IN /\ StartAccepted
              /\ attempts'[i].pc # "idle" => attempts'[i].mode = recordingMode
              /\ ~LiveStream(Cur, streamRef) => attempts'[i].pc = "enum" ]_vars

\* a retry on its way to the acquisition, after a start that has failed
C25_Witness ==
  /\ mounted /\ starts = 2 /\ permissionStatus = "denied"
  /\ recordingMode = "video"
  /\ Cardinality(InFlight) = 1
  /\ \E i \in Attempts : attempts[i].pc = "gum" /\ attempts[i].mode = "video"

\* ------------------------------------------------------------ C26
\* the error names with a case of their own
ListedNames == {"NotAllowedError", "NotFoundError", "NotReadableError",
                "OverconstrainedError", "SecurityError", "AbortError"}

\* the messages a rejection can carry
PlatformMessages == {e.message : e \in GumErrors} \cup {"another platform message"}

ExternalStop ==
  /\ TrackEnded
  /\ mounted /\ isRecording /\ mediaRecorderRef # 0
  /\ RecState(recorders[mediaRecorderRef]) = "recording"
  /\ RecState(recorders'[mediaRecorderRef]) = "inactive"

\* C27: when the tracks of the running recording end by themselves the
\* session stops recording (isRecording false, no interval) without an
\* error; and the stop event of a recorder whose stream has ended that way
\* leaves the artifact of the chunks kept, and no error.
C27_ExternalStopGivesArtifact ==
  [][ /\ ExternalStop => (~isRecording' /\ ~intervalRef' /\ error' = Null)
      /\ \A r \in Recorders : \A size \in ChunkSizes :
           (/\ RecorderStoppedWith(r, size)
            /\ mounted /\ isRecording /\ mediaRecorderRef = r
            /\ ~LiveStream(Cur, recorders[r].stream)) =>
             /\ ~isRecording' /\ error' = Null
             /\ recordedBlob'.chunks = ondataavailable(recorders[r], size).chunks ]_vars

\* ------------------------------------------------------------ C28
\* C28: after every step the record page is mounted only if the
\* authentication has resolved, a user is signed in and the record route is
\* on show; and a sign-out while the page is mounted unmounts it.
C28_MountedOnlyWhenSignedIn ==
  [][ /\ mounted' =>
           (~auth'.isLoading /\ auth'.user # Null /\ auth'.route = "/record")
      /\ (SignOut /\ mounted) => (~mounted' /\ auth'.user = Null) ]_vars

\* the user has signed out during a recording: the page is gone, its
\* cleanup is waiting and the stop event of its recorder is pending
C28_Witness ==
  /\ ~mounted /\ auth = [user |-> Null, isLoading |-> FALSE, route |-> "/record"]
  /\ unmountWaiting
  /\ \E r \in Recorders : recorders[r].phase \in {"flushStart", "flush"}

\* ------------------------------------------------------------ C29
\* C29: while isRecording is true a recorder is held in mediaRecorderRef, so
\* that a click on the stop button clears isRecording.
C29_StopEndsRecording ==
  (mounted /\ isRecording) =>
    /\ mediaRecorderRef # 0
    /\ ~stopRecording(Cur).isRecording

\* ------------------------------------------------------------ C30
\* the intervals installed by setInterval and not cleared
IntervalsRunning == (IF intervalRef THEN 1 ELSE 0) + leaked

\* C30: at most one interval runs, and startRecording installs one only when
\* none is running.
C30_AtMostOneInterval ==
  [][ /\ IntervalsRunning' <= 1
      /\ IntervalsRunning' > IntervalsRunning => IntervalsRunning = 0 ]_vars

\* ------------------------------------------------------------ C31
\* recorder r delivers a chunk of the given size: during the recording, or as
\* the last one before its stop event
DeliversTo(r, size) == DataAvailableWith(r, size) \/ RecorderStoppedWith(r, size)

\* C31: every recorder has a buffer of its own.  The buffer of a recorder
\* that comes into being is empty; it changes only in a step that delivers a
\* chunk of non-zero size from that recorder, which is appended; a delivery
\* from one recorder leaves the buffer of every other recorder as it is; and
\* the artifact made at the stop event of a recorder is that recorder's
\* buffer.
C31_BuffersDisjoint ==
  [][ \A r \in Recorders :
        /\ (recorders[r].phase = "free" /\ recorders'[r].phase # "free") =>
             recorders'[r].chunks = << >>
        /\ (/\ recorders[r].phase # "free" /\ recorders'[r].phase # "free"
            /\ recorders'[r].chunks # recorders[r].chunks) =>
             \E size \in ChunkSizes :
               /\ DeliversTo(r, size) /\ size > 0
               /\ recorders'[r].chunks = Append(recorders[r].chunks, size)
        /\ \A size \in ChunkSizes :
             /\ DeliversTo(r, size) =>
                  \A o \in Recorders \ {r} :
                    recorders'[o].phase # "free" =>
                      recorders'[o].chunks = recorders[o].chunks
             /\ MakesArtifact(r, size) =>
                  recordedBlob'.chunks = ondataavailable(recorders[r], size).chunks ]_vars

\* a recording has been started on the stream of a recording whose stop event
\* is still to come; the stopped recorder holds a chunk, the new one none yet
C31_Witness ==
  \E r \in Recorders, o \in Recorders :
    /\ r # o /\ recorders[r].stream = recorders[o].stream
    /\ recorders[r].phase = "flush" /\ recorders[r].chunks = <<120>>
    /\ recorders[o].phase = "recording" /\ recorders[o].chunks = << >>
    /\ mediaRecorderRef = o /\ isRecording /\ LiveStream(Cur, streamRef)

\* ------------------------------------------------------------ C32
\* startRecording takes the stream in streamRef instead of acquiring one
\* (lines 227-239)
ReusesStream == ClickStart /\ LiveStream(Cur, streamRef)

\* C32: a stream that startRecording reuses was acquired for the mode that
\* is selected, and the recorder made on it has that mode.
C32_ReusedStreamOfSelectedMode ==
  [][ ReusesStream =>
        /\ streams[streamRef].mode = recordingMode
        /\ \A r \in Recorders :
             (recorders[r].phase = "free" /\ recorders'[r].phase # "free") =>
               recorders'[r].mode = streams[streamRef].mode ]_vars

\* ------------------------------------------------------------ C33
\* the calls of cleanupResources that are in their 100 ms delay
CleanupsInProgress ==
  Cardinality({i \in Attempts :
                 attempts[i].pc \in {"cleanWait", "errCleanWait", "catchCleanWait"}})
    + (IF resetWaiting THEN 1 ELSE 0) + (IF unmountWaiting THEN 1 ELSE 0)

\* a live track, an active recorder or a running timer is held by the refs
HoldsResource(s) ==
  \/ LiveStream(s, s.streamRef)
  \/ s.mediaRecorderRef # 0 /\ RecState(s.recorders[s.mediaRecorderRef]) # "inactive"
  \/ s.intervalRef

\* a call of cleanupResources returns after its delay (lines 69-72)
CleanupReturns ==
  CleanWaitDone \/ ErrCleanWaitDone \/ CatchCleanWaitDone \/ ResetCleanDone
    \/ UnmountCleanDone

\* a call of cleanupResources returns at once because a cleanup is in
\* progress (lines 29-32); the rest of the step touches no resource
CleanupReturnsEarly ==
  /\ isCleaningUpRef
  /\ \/ ResetRequested \/ Unmount \/ EnumerateDone \/ GetUserMediaReject
     \/ FailedCompletion /\ ~CatchCleanWaitDone

\* C33: when a call of cleanupResources returns, after its delay or at once
\* because another cleanup is in progress, the refs hold no live track, no
\* active recorder and no running timer; at most one cleanup is in progress
\* at a time, and isCleaningUpRef is true exactly while one is.
C33_CleanupSafeUnderOverlap ==
  [][ /\ CleanupReturns => ~HoldsResource(Cur)
      /\ CleanupReturnsEarly => ~HoldsResource(Cur')
      /\ CleanupsInProgress' <= 1
      /\ isCleaningUpRef' <=> CleanupsInProgress' = 1 ]_vars

\* ------------------------------------------------------------ C34
\* C34: a step in which an acquisition fails leaves permissionStatus
\* 'denied' only if the failure is a rejection of getUserMedia with
\* NotAllowedError: not when no microphone or camera is detected, not when
\* the stream delivered has no track or no live track, and not on a
\* rejection with another name.
C34_DeniedOnlyWhenRefused ==
  [][ \A i \in Attempts :
        /\ \A e \in GumErrors :
             (GetUserMediaRejectWith(i, e) /\ mounted /\ e.name # "NotAllowedError") =>
               permissionStatus' # "denied"
        /\ \A hasAudio \in BOOLEAN, hasVideo \in BOOLEAN :
             (/\ EnumerateDoneWith(i, hasAudio, hasVideo) /\ mounted
              /\ ~hasAudio \/ (attempts[i].mode = "video" /\ ~hasVideo)) =>
               permissionStatus' # "denied"
        /\ \A hasTracks \in BOOLEAN, throws \in Throws :
             (GetUserMediaResolveWith(i, hasTracks, {}, throws) /\ mounted) =>
               permissionStatus' # "denied" ]_vars

\* ------------------------------------------------------------ C35
\* no effect of the button is due: it has reached a stable state
ButtonStable == button.mounted /\ ~EffectDue

\* C35: during one mount of GoogleSignInButton renderButton is called at
\* most once, and once it has been called and no effect is due, isInitialized
\* is true and the rendered button is in the document.
C35_ButtonRenderedOnce ==
  button.mounted =>
    /\ button.calls <= 1
    /\ (button.calls = 1 /\ ButtonStable) => (button.isInitialized /\ button.content)

\* ------------------------------------------------------------ C36
\* C36: isLoading becomes false and stays false, whatever the outcome of
\* loading the script: from some point on ProtectedRoute never renders the
\* loading indicator.
C36_LoadingEnds == <>[](~auth.isLoading /\ ProtectedRoute(auth) # "spinner")

\* the script has failed to load: the sign-in page is shown, without Google
C36_Witness ==
  /\ gsi.script = "failed" /\ gsi.api = "none"
  /\ ~auth.isLoading /\ ProtectedRoute(auth) = "signin" /\ button.mounted

====
